---- MODULE Spec2Model ----
(***************************************************************************)
(* Model of the sliding-window Throttle of src/src/lib.rs.                 *)
(*                                                                         *)
(* The program state is the struct Throttle {timeout, threshold, deque}    *)
(* together with the monotonic clock that Instant::now() reads.  Instants  *)
(* and Durations are natural numbers of clock units.  Each public method   *)
(* is one action, running at one clock value; time passes between calls    *)
(* (std::thread::sleep in the doc test).  The remaining variables record   *)
(* what the caller has observed: the calls made and the values returned.   *)
(***************************************************************************)
EXTENDS Integers, Sequences, FiniteSets

\* ---- bounds of the model ----
MaxTimeout == 2
MaxThreshold == 2
MaxTime == 4
HistLen == 3
SharedMaxTime == 1

\* "no instant": a value no clock reading takes
NoInstant == -1

VARIABLES
    timeout,     \* Throttle.timeout
    threshold,   \* Throttle.threshold
    deque,       \* Throttle.deque, front = index 1
    now,         \* the monotonic clock read by Instant::now()
    hist,        \* the last HistLen things the caller did, with the results
    admitted,    \* the instants pushed by every successful accept so far
    retry,       \* Err value of the latest accept, if that accept failed
    sizes,       \* the last two size() results since the latest accept
    fresh,       \* nothing but accept has been called since new()
    burst,       \* while fresh: the number of accept calls made
    prevAccept,  \* clock value of the latest accept call
    spaced,      \* every accept so far came more than timeout after the last
    seen,        \* what size() and available() returned at this clock value
                 \* since the latest accept
    avail,       \* since the latest successful accept: when available() first
                 \* returned true, and whether it had just returned false
    turn,        \* the context that holds the exclusive (&mut) access
    callers      \* for each event of hist, the context that made the call

vars == <<timeout, threshold, deque, now, hist, admitted, retry, sizes,
          fresh, burst, prevAccept, spaced, seen, avail, turn, callers>>

\* ---- pure parts of the code ----

\* Instant::elapsed, read one clock unit too far
elapsedOffByOne(first, clock) == clock - first + 1

\* Instant::elapsed: the time from first to the clock reading
elapsed(first, clock) == clock - first

\* the test of flush with > in place of >=
expiredStrict(first, clock, window) == elapsed(first, clock) > window

\* the test of flush: first.elapsed() >= self.timeout
expired(first, clock, window) == elapsed(first, clock) >= window

\* flush clearing the whole record once its front has expired
flushAll(dq, clock, window) ==
    IF dq # <<>> /\ expired(Head(dq), clock, window) THEN <<>> ELSE dq

\* flush that pops nothing (the call to flush left out)
flushNone(dq, clock, window) == dq

\* flush with `if let` in place of `while let`: at most one pop_front
flushOnce(dq, clock, window) ==
    IF dq # <<>> /\ expired(Head(dq), clock, window) THEN Tail(dq) ELSE dq

\* flush: pop_front while the front is expired, stop at the first that is not
RECURSIVE flush(_, _, _)
flush(dq, clock, window) ==
    IF dq = <<>>
    THEN dq
    ELSE IF expired(Head(dq), clock, window)
         THEN flush(Tail(dq), clock, window)
         ELSE dq

\* size reading the length before it flushes
sizeStale(dq, clock, window) == Len(dq)

\* the value of size: flush, then self.deque.len()
sizeResult(dq, clock, window) == Len(flush(dq, clock, window))

\* the test of accept with > in place of >=
fullStrict(dq, limit) == Len(dq) > limit

\* the test of accept counting the entry about to be pushed
fullOffByOne(dq, limit) == Len(dq) + 1 >= limit

\* the test of accept: self.deque.len() >= self.threshold
full(dq, limit) == Len(dq) >= limit

\* the comparison of available turned round
availableInverted(n, limit) == n >= limit

\* the comparison of available with <= in place of <
availableLax(n, limit) == n <= limit

\* the comparison of available: self.size() < self.threshold
availableResult(n, limit) == n < limit

\* push_front in place of push_back
pushFront(dq, clock) == <<clock>> \o dq

\* self.deque.push_back(Instant::now())
pushBack(dq, clock) == Append(dq, clock)

\* the Err value of accept without the timeout added
retryAtFront(dq, window) == Head(dq)

\* the Err value of accept: front().unwrap() + self.timeout
retryAt(dq, window) == Head(dq) + window

\* ---- what the caller observes ----

Event(o, r, v) == [op |-> o, res |-> r, val |-> v]

\* the log keeps the last HistLen events
Log(h, e) ==
    IF Len(h) < HistLen THEN Append(h, e) ELSE Append(Tail(h), e)

\* consecutive sleeps are one sleep
LogSleep(h) ==
    IF h # <<>> /\ h[Len(h)].op = "sleep" THEN h ELSE Log(h, Event("sleep", "None", 0))

LastTwo(s) == IF Len(s) <= 2 THEN s ELSE Tail(s)

last == IF hist = <<>> THEN Event("new", "None", 0) ELSE hist[Len(hist)]

\* the two contexts that may call the throttle; Owner is the one that built it
Owner == 1
Other == 2
Contexts == {Owner, Other}

\* the entry of callers for a sleep: no context made a call
Nobody == 0

\* nothing observed yet at this clock value
Unseen == [size |-> NoInstant, avail |-> "None"]

\* available() has not returned true yet
NotAvailable == [since |-> NoInstant, rose |-> FALSE]

\* the log ends with: available() returned false, then only time passed
FalseThenSlept(h) ==
    /\ Len(h) >= 2
    /\ h[Len(h) - 1].op = "available"
    /\ h[Len(h) - 1].res = "False"
    /\ h[Len(h)].op = "sleep"

\* available() has returned true: keep the first instant it did, and whether
\* that result followed a false one with nothing but a sleep in between
SawAvailable(a, h, clock) ==
    IF a.since # NoInstant THEN a ELSE [since |-> clock, rose |-> FalseThenSlept(h)]

\* ---- the state machine ----

\* Throttle::new, at clock value 0.  The timeout is a positive duration (the
\* documented use, new(unit * 4, 3)); the threshold may be 0.
Init ==
    /\ timeout \in 1..MaxTimeout
    /\ threshold \in 0..MaxThreshold
    /\ deque = <<>>
    /\ now = 0
    /\ hist = <<>>
    /\ admitted = <<>>
    /\ retry = NoInstant
    /\ sizes = <<>>
    /\ fresh = TRUE
    /\ burst = 0
    /\ prevAccept = NoInstant
    /\ spaced = TRUE
    /\ seen = Unseen
    /\ avail = NotAvailable
    /\ turn = Owner
    /\ callers = <<>>

\* time passes between two calls
Tick ==
    /\ now < MaxTime
    /\ now' = now + 1
    /\ hist' = LogSleep(hist)
    /\ fresh' = FALSE
    /\ burst' = 0
    /\ seen' = Unseen
    /\ callers' = IF last.op = "sleep" THEN callers ELSE Log(callers, Nobody)
    /\ UNCHANGED <<timeout, threshold, deque, admitted, retry, sizes,
                   prevAccept, spaced, avail, turn>>

\* Throttle::size
Size ==
    LET live == flush(deque, now, timeout) IN
    /\ deque' = live
    /\ hist' = Log(hist, Event("size", "Count", sizeResult(deque, now, timeout)))
    /\ sizes' = LastTwo(Append(sizes, sizeResult(deque, now, timeout)))
    /\ seen' = [seen EXCEPT !.size = sizeResult(deque, now, timeout)]
    /\ fresh' = FALSE
    /\ burst' = 0
    /\ callers' = Log(callers, turn)
    /\ UNCHANGED <<timeout, threshold, now, admitted, retry, prevAccept, spaced,
                   avail, turn>>

\* Throttle::available
Available ==
    LET live == flush(deque, now, timeout) IN
    /\ deque' = live
    /\ hist' = Log(hist, Event("available",
                     IF availableResult(sizeResult(deque, now, timeout), threshold)
                     THEN "True" ELSE "False", 0))
    /\ seen' = [seen EXCEPT !.avail =
                     IF availableResult(sizeResult(deque, now, timeout), threshold)
                     THEN "True" ELSE "False"]
    /\ avail' = IF availableResult(sizeResult(deque, now, timeout), threshold)
                THEN SawAvailable(avail, hist, now) ELSE avail
    /\ fresh' = FALSE
    /\ burst' = 0
    /\ callers' = Log(callers, turn)
    /\ UNCHANGED <<timeout, threshold, now, admitted, retry, sizes,
                   prevAccept, spaced, turn>>

\* Throttle::accept
Accept ==
    LET live == flush(deque, now, timeout) IN
    /\ IF full(live, threshold)
       THEN IF live = <<>>
            THEN \* front() is None: unwrap panics, after flush has run
                 /\ deque' = live
                 /\ hist' = Log(hist, Event("accept", "Panic", 0))
                 /\ retry' = NoInstant
                 /\ admitted' = admitted
                 /\ avail' = avail
            ELSE /\ deque' = live
                 /\ hist' = Log(hist, Event("accept", "Err", retryAt(live, timeout)))
                 /\ retry' = retryAt(live, timeout)
                 /\ admitted' = admitted
                 /\ avail' = avail
       ELSE /\ deque' = pushBack(live, now)
            /\ hist' = Log(hist, Event("accept", "Ok", 0))
            /\ retry' = NoInstant
            /\ admitted' = Append(admitted, now)
            /\ avail' = NotAvailable
    /\ sizes' = <<>>
    /\ seen' = Unseen
    /\ fresh' = (fresh /\ burst <= threshold)
    /\ burst' = IF fresh /\ burst <= threshold THEN burst + 1 ELSE 0
    /\ prevAccept' = now
    /\ spaced' = (spaced /\ (prevAccept = NoInstant \/ now - prevAccept > timeout))
    /\ callers' = Log(callers, turn)
    /\ UNCHANGED <<timeout, threshold, now, turn>>

Next == Tick \/ Size \/ Available \/ Accept

Spec == Init /\ [][Next]_vars

\* ---- the documented scenario (the doc test of Throttle) ----

\* Throttle::new(unit * 4, 3), in clock units
ScenarioTimeout == 4
ScenarioThreshold == 3

\* the clock value after the last sleep: 2 + 1 + 2 + 10 units
ScenarioEnd == 15

\* the number of accept calls the scenario expects to have succeeded once its
\* calls at clock value t are done: accepts succeed at 0, 2, 3 and 5
ScenarioAdmitted(t) ==
    IF t < 2 THEN 1 ELSE IF t < 3 THEN 2 ELSE IF t < 5 THEN 3 ELSE 4

\* the clock values at which the scenario makes a second, rejected accept
ScenarioRejectAt(t) == t \in {3, 5}

ScenarioInit ==
    /\ timeout = ScenarioTimeout
    /\ threshold = ScenarioThreshold
    /\ deque = <<>>
    /\ now = 0
    /\ hist = <<>>
    /\ admitted = <<>>
    /\ retry = NoInstant
    /\ sizes = <<>>
    /\ fresh = TRUE
    /\ burst = 0
    /\ prevAccept = NoInstant
    /\ spaced = TRUE
    /\ seen = Unseen
    /\ avail = NotAvailable
    /\ turn = Owner
    /\ callers = <<>>

\* std::thread::sleep: the scenario sleeps once its calls at this clock value
\* are made
ScenarioTick ==
    /\ now < ScenarioEnd
    /\ Len(admitted) = ScenarioAdmitted(now)
    /\ ScenarioRejectAt(now) => retry # NoInstant
    /\ now' = now + 1
    /\ hist' = LogSleep(hist)
    /\ fresh' = FALSE
    /\ burst' = 0
    /\ seen' = Unseen
    /\ callers' = IF last.op = "sleep" THEN callers ELSE Log(callers, Nobody)
    /\ UNCHANGED <<timeout, threshold, deque, admitted, retry, sizes,
                   prevAccept, spaced, avail, turn>>

\* the accept calls of the scenario: one at 0 and at 2, two at 3 and at 5
ScenarioAccept ==
    /\ now \in {0, 2, 3, 5}
    /\ \/ Len(admitted) < ScenarioAdmitted(now)
       \/ ScenarioRejectAt(now) /\ retry = NoInstant
    /\ Accept

\* size() and available() may be called at any point of the scenario
ScenarioNext == ScenarioTick \/ Size \/ Available \/ ScenarioAccept

SpecScenario == ScenarioInit /\ [][ScenarioNext]_vars

\* ---- one throttle shared by several contexts, one call at a time ----

\* another context takes the exclusive access (the lock of the wrapper that
\* hands out &mut Throttle) between two calls
Acquire ==
    /\ \E c \in Contexts : c # turn /\ turn' = c
    /\ UNCHANGED <<timeout, threshold, deque, now, hist, admitted, retry, sizes,
                   fresh, burst, prevAccept, spaced, seen, avail, callers>>

\* time passes, up to the bound of the shared model
SharedTick == now < SharedMaxTime /\ Tick

SharedNext == SharedTick \/ Acquire \/ Size \/ Available \/ Accept

SpecShared == Init /\ [][SharedNext]_vars

\* ---- vocabulary of the properties ----

\* an entry is live at the current clock value when its age is below timeout
IsLive(x) == now - x < timeout

\* the entries of the record that are live now, in order
LiveNow == SelectSeq(deque, IsLive)

\* the successful admissions whose instant lies in (now - timeout, now]
InWindow == {i \in DOMAIN admitted : now - admitted[i] < timeout}

\* a step that is a call of accept: the clock stands still and the log ends
\* with the accept just made
AcceptStep == now' = now /\ last'.op = "accept"

\* the k-th of the last three events of the log (k = 1 is the oldest)
Recent(k) == hist[Len(hist) - 3 + k]

\* the last three events of the log are the operations o1, o2, o3, made with
\* no time elapsed between them
Pattern(o1, o2, o3) ==
    /\ Len(hist) >= 3
    /\ Recent(1).op = o1
    /\ Recent(2).op = o2
    /\ Recent(3).op = o3

\* ---- C1 ----
\* C1: at every clock value, the number of successful accepts whose admission
\* instant lies in the trailing window (now - timeout, now] is at most threshold.
C1_RateLimitSafety == Cardinality(InWindow) <= threshold

\* the window is full while older admissions have already left it
C1_Witness ==
    /\ threshold >= 1
    /\ Cardinality(InWindow) = threshold
    /\ Len(admitted) > threshold
    /\ last.op = "accept"

\* ---- C2 ----
\* C2: with threshold 0, every accept returns a rejection carrying an instant
\* no earlier than now (it never aborts on the missing front entry).
C2_ZeroCapacityRejects ==
    (threshold = 0 /\ last.op = "accept") => (last.res = "Err" /\ last.val >= now)

\* ---- C3 ----
\* C3: accept compacts; if the live count is >= threshold it returns Err with
\* (oldest live instant) + timeout and adds nothing; otherwise it appends now
\* and returns Ok.
C3_AcceptContract ==
    [][AcceptStep =>
        IF Len(LiveNow) >= threshold
        THEN /\ last'.res = "Err"
             /\ last'.val = LiveNow[1] + timeout
             /\ deque' = LiveNow
        ELSE /\ last'.res = "Ok"
             /\ deque' = Append(LiveNow, now)]_vars

\* ---- C4 ----
\* C4: after every public operation the record holds at most threshold entries.
C4_AtMostCapacity == Len(deque) <= threshold

\* a rejected accept leaves the record exactly full
C4_Witness ==
    /\ threshold >= 1
    /\ last.op = "accept"
    /\ last.res = "Err"
    /\ Len(deque) = threshold

\* ---- C5 ----
\* C5: after a failed accept that returned RetryAt, and no accept since, an
\* accept called at any clock value >= RetryAt succeeds (equality included).
C5_RetrySucceeds ==
    [][(AcceptStep /\ retry # NoInstant /\ now >= retry) => last'.res = "Ok"]_vars

\* a rejection, a sleep up to exactly the returned instant, then a success
C5_Witness ==
    /\ Pattern("accept", "sleep", "accept")
    /\ Recent(1).res = "Err"
    /\ Recent(1).val = now
    /\ Recent(3).res = "Ok"

\* ---- C6 ----
\* C6: from a fresh throttle with threshold N, the first N back-to-back accepts
\* succeed and the (N+1)-th returns a rejection.
C6_BurstOfN ==
    (fresh /\ burst >= 1) =>
        IF burst <= threshold THEN last.res = "Ok" ELSE last.res = "Err"

\* ---- C7 ----
\* C7 as stated: when consecutive accept calls are spaced more than timeout
\* apart, every call succeeds and the record never holds more than one entry.
C7_SpacedAlwaysSucceeds ==
    spaced => ((last.op = "accept" => last.res = "Ok") /\ Len(deque) <= 1)

\* C7 amended: the same, for a throttle whose threshold is at least 1.
C7_SpacedSucceedsPositiveCapacity ==
    (threshold >= 1 /\ spaced) =>
        ((last.op = "accept" => last.res = "Ok") /\ Len(deque) <= 1)

\* at least two spaced accepts have been made, the last one just now
C7_Witness ==
    /\ threshold >= 1
    /\ spaced
    /\ Len(admitted) >= 2
    /\ last.op = "accept"
    /\ last.res = "Ok"

\* ---- C8 ----
\* C8: with threshold 0 the record stays empty, size() returns 0 and
\* available() returns false, whatever was called and however long it took.
C8_ZeroCapacityObservations ==
    threshold = 0 =>
        /\ deque = <<>>
        /\ last.op = "size" => last.val = 0
        /\ last.op = "available" => last.res = "False"

\* threshold 0: an accept, then size and available, after time has passed
C8_Witness ==
    /\ threshold = 0
    /\ now > 0
    /\ Pattern("accept", "size", "available")

\* ---- C9 ----
\* C9: when a public operation has just completed, every instant left in the
\* record has age strictly below timeout.
C9_NoStaleEntries ==
    last.op \in {"size", "available", "accept"} =>
        \A i \in DOMAIN deque : now - deque[i] < timeout

\* size() has just dropped an entry whose age is exactly timeout and kept one
C9_Witness ==
    /\ last.op = "size"
    /\ deque # <<>>
    /\ \E i \in DOMAIN admitted : now - admitted[i] = timeout

\* ---- C10 ----
\* C10: successive size() results with no accept between them never increase;
\* and size() right after a successful accept is one more than size() right
\* before it.
C10_SizeMonotone ==
    /\ Len(sizes) = 2 => sizes[2] <= sizes[1]
    /\ (Pattern("size", "accept", "size") /\ Recent(2).res = "Ok")
           => Recent(3).val = Recent(1).val + 1

\* size, a successful accept, size, on a record that has already shed entries
C10_Witness ==
    /\ Pattern("size", "accept", "size")
    /\ Recent(2).res = "Ok"
    /\ Recent(1).val >= 1
    /\ Len(admitted) > Recent(3).val

\* ---- C11 ----
\* a step that is a call of size or available
ObserveStep == now' = now /\ last'.op \in {"size", "available"}

\* C11: size() and available() called again with no elapsed time and no accept
\* in between return what they returned before, and leave the record as the
\* first such call left it.
C11_ObservationIdempotent ==
    [][ObserveStep =>
        /\ (last'.op = "size" /\ seen.size # NoInstant) => last'.val = seen.size
        /\ (last'.op = "available" /\ seen.avail # "None") => last'.res = seen.avail
        /\ seen # Unseen => deque' = deque]_vars

\* size, available, size at one clock value, after entries have expired
C11_Witness ==
    /\ Pattern("size", "available", "size")
    /\ Recent(1).val = Recent(3).val
    /\ Recent(1).val >= 1
    /\ Recent(2).res = "False"
    /\ Len(admitted) > Len(deque)

\* ---- C12 ----
\* C12: the record is sorted in non-decreasing order, oldest at the front.
C12_Sorted ==
    \A i, j \in DOMAIN deque : i < j => deque[i] <= deque[j]

\* two entries admitted at different instants are both in the record
C12_Witness ==
    /\ Len(deque) >= 2
    /\ deque[1] < deque[Len(deque)]

\* ---- C13 ----
\* C13: in the scenario with timeout 4 and threshold 3: accept at 0 succeeds
\* (size 1); at 2 size is 1 and accept succeeds (size 2); at 3 size is 2,
\* accept succeeds (size 3), a further accept fails with RetryAt 4 and size
\* stays 3; at 5 size is 2, accept succeeds (size 3), a further accept fails
\* and size stays 3; at 15 size is 0.
C13_Scenario ==
    /\ last.op = "size" =>
        /\ (now = 0 /\ Len(admitted) = 1) => last.val = 1
        /\ (now = 2 /\ Len(admitted) = 1) => last.val = 1
        /\ (now = 2 /\ Len(admitted) = 2) => last.val = 2
        /\ (now = 3 /\ Len(admitted) = 2) => last.val = 2
        /\ (now = 3 /\ Len(admitted) = 3) => last.val = 3
        /\ (now = 5 /\ Len(admitted) = 3) => last.val = 2
        /\ (now = 5 /\ Len(admitted) = 4) => last.val = 3
        /\ now = 15 => last.val = 0
    /\ last.op = "accept" =>
        /\ now = 0 => (last.res = "Ok" /\ Len(admitted) = 1)
        /\ now = 2 => (last.res = "Ok" /\ Len(admitted) = 2)
        /\ now = 3 => /\ Len(admitted) = 3
                      /\ \/ last.res = "Ok" /\ retry = NoInstant
                         \/ last.res = "Err" /\ last.val = 4
        /\ now = 5 => /\ Len(admitted) = 4
                      /\ \/ last.res = "Ok" /\ retry = NoInstant
                         \/ last.res = "Err"

\* the scenario has run to its end and the last size() returned 0
C13_Witness ==
    /\ now = ScenarioEnd
    /\ Len(admitted) = 4
    /\ last.op = "size"
    /\ last.val = 0

\* ---- C14 ----
\* a step that is a call of size, available or accept
OpStep == now' = now /\ last'.op \in {"size", "available", "accept"}

\* what the call left of the entries it found: the record after the step,
\* without the entry a successful accept has just pushed
Kept ==
    IF last'.op = "accept" /\ last'.res = "Ok"
    THEN SubSeq(deque', 1, Len(deque') - 1)
    ELSE deque'

\* C14: compaction removes from the front exactly the entries whose age is
\* >= timeout (age = timeout included), stops at the first younger entry and
\* removes no entry whose age is < timeout.
C14_PrefixTrim ==
    [][OpStep =>
        \E k \in 0..Len(deque) :
            /\ Kept = SubSeq(deque, k + 1, Len(deque))
            /\ \A i \in 1..k : now - deque[i] >= timeout
            /\ k < Len(deque) => now - deque[k + 1] < timeout
            /\ \A i \in DOMAIN Kept : now - Kept[i] < timeout]_vars

\* available(), called right after a sleep, found an entry of age exactly
\* timeout at the front and a younger one behind it
C14_Witness ==
    /\ Len(hist) >= 2
    /\ hist[Len(hist) - 1].op = "sleep"
    /\ last.op = "available"
    /\ deque # <<>>
    /\ Len(admitted) > Len(deque)
    /\ now - admitted[Len(admitted) - Len(deque)] = timeout

\* ---- C15 ----
\* C15: a rejected accept adds no entry: it leaves the record equal to the
\* compacted record it observed, and size() right after it returns what size()
\* returned right before it.
C15_RejectAddsNothing ==
    /\ [](Pattern("size", "accept", "size") /\ Recent(2).res # "Ok"
              => Recent(3).val = Recent(1).val)
    /\ [][(AcceptStep /\ last'.res # "Ok") =>
              (deque' = LiveNow /\ admitted' = admitted)]_vars

\* size, a rejected accept, size on a full record that has shed entries before
C15_Witness ==
    /\ Pattern("size", "accept", "size")
    /\ Recent(2).res = "Err"
    /\ Recent(1).val = threshold
    /\ Recent(3).val = threshold
    /\ Len(admitted) > threshold

\* ---- C16 ----
\* the record is what is left of the admissions, in their order, after some
\* of the oldest have gone
FifoExpiry ==
    \E k \in 0..Len(admitted) : deque = SubSeq(admitted, k + 1, Len(admitted))

\* C16: no step changes timeout or threshold; size and available (and the
\* passing of time) add no entry; entries leave only from the front, by a call
\* that finds their age >= timeout, hence in the order they were admitted.
C16_FrameAndFifo ==
    /\ []FifoExpiry
    /\ [][/\ timeout' = timeout
          /\ threshold' = threshold
          /\ last'.op = "sleep" => deque' = deque
          /\ last'.op \in {"size", "available"} => Len(deque') <= Len(deque)
          /\ \E k \in 0..Len(deque) :
                /\ Kept = SubSeq(deque, k + 1, Len(deque))
                /\ \A i \in 1..k : now - deque[i] >= timeout]_vars

\* three admissions at three instants; the two oldest have expired, the
\* youngest is still in the record after a size() call
C16_Witness ==
    /\ Len(admitted) >= 3
    /\ admitted[1] < admitted[2]
    /\ admitted[2] < admitted[3]
    /\ deque = <<admitted[Len(admitted)]>>
    /\ last.op = "size"

\* ---- C17 ----
\* C17: once available() has returned true it returns true on every later
\* call, however much time passes, until an accept succeeds; a false result
\* can turn true through elapsed time alone.
C17_AvailableStaysTrue ==
    (avail.since # NoInstant /\ last.op = "available") => last.res = "True"

\* available() returned false, time passed, it returned true, more time
\* passed, and it has just returned true again
C17_Witness ==
    /\ avail.rose
    /\ avail.since < now
    /\ Len(hist) >= 2
    /\ hist[Len(hist) - 1].op = "sleep"
    /\ last.op = "available"
    /\ last.res = "True"

\* ---- C18 ----
\* C18: when contexts share the throttle one call at a time, a context that
\* saw available() = true can have its accept rejected because another
\* context's accept took the last slot in between, and only then (any other
\* call or a sleep in between leaves the slot free); the record still never
\* holds more than threshold entries and no window holds more than threshold
\* admissions.
C18_SharedBound ==
    /\ Len(deque) <= threshold
    /\ Cardinality({i \in DOMAIN admitted : IsLive(admitted[i])}) <= threshold
    /\ (/\ Pattern("available", Recent(2).op, "accept")
        /\ Recent(1).res = "True"
        /\ Recent(3).res # "Ok"
        /\ callers[Len(callers) - 2] = callers[Len(callers)])
       => (Recent(2).op = "accept" /\ Recent(2).res = "Ok")

\* one context saw available() = true, another context's accept succeeded,
\* and the first context's accept was then rejected
C18_Witness ==
    /\ Pattern("available", "accept", "accept")
    /\ Recent(1).res = "True"
    /\ Recent(2).res = "Ok"
    /\ Recent(3).res = "Err"
    /\ callers[Len(callers) - 2] = callers[Len(callers)]
    /\ callers[Len(callers) - 1] # callers[Len(callers)]
    /\ Len(deque) = threshold

\* ---- C19 ----
\* C19: the RetryAt of a rejected accept is strictly later than the clock
\* value of the call, and every accept called before that instant (no accept
\* having succeeded in between) is rejected with the same RetryAt.
C19_RetryIsEarliest ==
    [][AcceptStep =>
        /\ last'.res = "Err" => last'.val > now
        /\ (retry # NoInstant /\ now < retry) =>
               (last'.res = "Err" /\ last'.val = retry)]_vars

\* a rejection, a sleep that ends before the returned instant, and a second
\* rejection carrying the same instant
C19_Witness ==
    /\ Pattern("accept", "sleep", "accept")
    /\ Recent(1).res = "Err"
    /\ Recent(3).res = "Err"
    /\ Recent(3).val = Recent(1).val
    /\ now < Recent(3).val

\* ---- C20 ----
\* C20: for threshold >= 1, available() returns true exactly when an accept
\* called right after it, with no elapsed time, succeeds.
C20_AvailableAgreesWithAccept ==
    (/\ threshold >= 1
     /\ Len(hist) >= 2
     /\ hist[Len(hist) - 1].op = "available"
     /\ last.op = "accept")
    => (hist[Len(hist) - 1].res = "True" <=> last.res = "Ok")

\* after a sleep that freed a slot, available() returned true and the accept
\* that followed took the last slot
C20_Witness ==
    /\ Pattern("sleep", "available", "accept")
    /\ Recent(2).res = "True"
    /\ Recent(3).res = "Ok"
    /\ Len(deque) = threshold
    /\ Len(admitted) > threshold

====
